---- MODULE Spec2Model ----
(***************************************************************************)
(* Model of uniref_calour.Uniref, the calour database interface to the     *)
(* UniRef REST service (src/uniref_calour/uniref_calour.py).               *)
(*                                                                         *)
(* The host constructs an adapter, then calls get_seq_annotation_strings   *)
(* and show_annotation_info on it, one call at a time.  Each call is one   *)
(* action that runs the whole method body; the remote service's answer and *)
(* the browser's answer are inputs of the action.  Python strings are TLA+ *)
(* strings, dicts are records (a missing key is a missing field), lists    *)
(* are sequences, exceptions are carried in an `exc' field.                *)
(***************************************************************************)
EXTENDS Integers, Sequences, FiniteSets, TLC

VARIABLES adapter,   \* the Uniref instance: its attributes
          call,      \* the call in progress or just finished: op, arg, env
          ret,       \* how that call ended: returned / raised, and its value
          http,      \* requests.get calls issued by that call, in order
          browser,   \* webbrowser.open calls issued by that call, in order
          logs,      \* logger records emitted by that call, in order
          prev       \* the last finished get_seq_annotation_strings call

vars == <<adapter, call, ret, http, browser, logs, prev>>

-----------------------------------------------------------------------------
(* Bounds of the inputs: the number of records in `results' and of         *)
(* organisms in one record, for single calls (Spec) and for the pairs of   *)
(* calls that SpecFrame compares.                                          *)

MaxRecords == 3
MaxOrgs == 2
FrameMaxRecords == 1
FrameMaxOrgs == 1

Features == {"A", "B C"}
Names == {"X"}
OrgNames == {"Y", "Z"}
Contexts == {"None", "exp"}
ErrorStatuses == {404, 500}

-----------------------------------------------------------------------------
(* Python values *)

NoExc == "None"

\* d[k] on a dict: KeyError when the key is missing
DictGetItem(d, k) ==
    IF k \in DOMAIN d THEN [exc |-> NoExc, val |-> d[k]]
    ELSE [exc |-> "KeyError", val |-> ""]

\* obj.a on an object: AttributeError when the attribute is missing
GetAttr(obj, a) ==
    IF a \in DOMAIN obj THEN [exc |-> NoExc, val |-> obj[a]]
    ELSE [exc |-> "AttributeError", val |-> 0]

\* str + x: TypeError unless x is a str
StrAdd(s, x) ==
    IF x.type = "str" THEN [exc |-> NoExc, val |-> s \o x.str]
    ELSE [exc |-> "TypeError", val |-> ""]

Digit(d) ==
    CASE d = 0 -> "0" [] d = 1 -> "1" [] d = 2 -> "2" [] d = 3 -> "3"
      [] d = 4 -> "4" [] d = 5 -> "5" [] d = 6 -> "6" [] d = 7 -> "7"
      [] d = 8 -> "8" [] d = 9 -> "9"

RECURSIVE FormatNat(_)
FormatNat(n) == IF n < 10 THEN Digit(n) ELSE FormatNat(n \div 10) \o Digit(n % 10)

\* '%d' % n
FormatD(n) == IF n < 0 THEN "-" \o FormatNat(-n) ELSE FormatNat(n)

\* '%s' % s for a str s
FormatS(s) == s

-----------------------------------------------------------------------------
(* The remote service and the browser: what a call can meet *)

HTTP_OK == 200
NEW_WINDOW == 2

SeqUpTo(S, n) == UNION {[1..k -> S] : k \in 0..n}

\* organisms as the service documents them, and one without scientificName
GoodOrgs == {[scientificName |-> n] : n \in OrgNames}
BadOrg == [taxonId |-> "9606"]

\* records as the service documents them: a name, and optionally organisms
GoodRecords(maxO) ==
    {[name |-> n] : n \in Names}
    \cup {[name |-> n, organisms |-> o] : n \in Names, o \in SeqUpTo(GoodOrgs, maxO)}

\* records lacking a field the code reads: no name, or an organism without
\* scientificName after some good ones
BadRecords(maxO) ==
    {[organisms |-> o] : o \in SeqUpTo(GoodOrgs, 1)}
    \cup {[id |-> "UniRef90_P1"]}
    \cup {[name |-> n, organisms |-> Append(o, BadOrg)] :
              n \in Names, o \in SeqUpTo(GoodOrgs, maxO - 1)}
    \cup {[name |-> n, organisms |-> <<BadOrg>> \o o] :
              n \in Names, o \in SeqUpTo(GoodOrgs, 1)}

\* the body of an answer that is not a search result
ErrorBody == [messages |-> "error"]

\* what requests.get(url) does: raises (transport failure) or returns a
\* Response, whose attributes are status_code and the parsed body
Unreachable == [exc |-> "ConnectionError"]
Response(status, body) == [exc |-> NoExc, res |-> [status_code |-> status, json |-> body]]

\* what webbrowser.open does
Launches == {"ok", "webbrowser.Error"}

-----------------------------------------------------------------------------
(* Uniref *)

Entry(shape, detail, summary) == [shape |-> shape, detail |-> detail, summary |-> summary]

\* what a method call leaves behind
Outcome(self, status, exc, value, gets, opens, logged) ==
    [self |-> self, ret |-> [status |-> status, exc |-> exc, value |-> value],
     http |-> gets, browser |-> opens, logs |-> logged]

\* variant: declares a capability the class does not implement
__init__annotate(exp) ==
    LET self == [exp |-> exp, database_name |-> "redbiom", methods |-> <<"get", "annotate">>,
                 uniref_url |-> "https://rest.uniprot.org/uniref/"]
    IN Outcome(self, "returned", NoExc, <<>>, <<>>, <<>>,
               <<[level |-> "debug", msg |-> "uniref calour database interface initialized"]>>)

__init__(exp) ==
    LET self == [exp |-> exp, database_name |-> "redbiom", methods |-> <<"get">>,
                 uniref_url |-> "https://rest.uniprot.org/uniref/"]
    IN Outcome(self, "returned", NoExc, <<>>, <<>>, <<>>,
               <<[level |-> "debug", msg |-> "uniref calour database interface initialized"]>>)

IdentifierEntry(feature) ==
    Entry("tuple", [unirefid |-> feature, annotationtype |-> "other"], feature)

\* urllib.parse.quote, for the characters the features use
RECURSIVE Quote(_)
Quote(s) ==
    IF s = "" THEN ""
    ELSE (IF SubSeq(s, 1, 1) = " " THEN "%20" ELSE SubSeq(s, 1, 1))
         \o Quote(SubSeq(s, 2, Len(s)))

\* variant: the feature is percent-encoded
SearchUrl_quoted(self, feature) == self.uniref_url \o "search?query=" \o Quote(feature)

SearchUrl(self, feature) == self.uniref_url \o "search?query=" \o feature

FailureMessage(code) == "uniref query failed. code " \o FormatD(code)

FailureEntry(code) == Entry("tuple", [annotationtype |-> "other"], FailureMessage(code))

NameEntry(name) == Entry("list", [annotationtype |-> "other"], "name: " \o FormatS(name))

OrganismEntry(scientificName) ==
    Entry("tuple", [annotationtype |-> "other"], "organism: " \o FormatS(scientificName))

\* variant: cres['organisms'] is read without the membership test
HasOrganisms_unchecked(cres) == TRUE

HasOrganisms(cres) == "organisms" \in DOMAIN cres

\* the body of `for corg in cres['organisms']' for one organism
OrganismStep(corg, shortdesc) ==
    IF DictGetItem(corg, "scientificName").exc # NoExc
    THEN [exc |-> DictGetItem(corg, "scientificName").exc, shortdesc |-> shortdesc]
    ELSE [exc |-> NoExc,
          shortdesc |-> Append(shortdesc,
                               OrganismEntry(DictGetItem(corg, "scientificName").val))]

\* variant: only the first organism of a record is listed
OrganismLoop_first(organisms, sofar) ==
    IF organisms = <<>> \/ sofar.exc # NoExc THEN sofar
    ELSE OrganismStep(Head(organisms), sofar.shortdesc)

\* for corg in cres['organisms']: one step per organism, until an exception
RECURSIVE OrganismLoop(_, _)
OrganismLoop(organisms, sofar) ==
    IF organisms = <<>> \/ sofar.exc # NoExc THEN sofar
    ELSE OrganismLoop(Tail(organisms), OrganismStep(Head(organisms), sofar.shortdesc))

\* the body of `for cres in res' for one record
RecordStep(cres, shortdesc) ==
    IF DictGetItem(cres, "name").exc # NoExc
    THEN [exc |-> DictGetItem(cres, "name").exc, shortdesc |-> shortdesc]
    ELSE IF HasOrganisms(cres)
    THEN IF DictGetItem(cres, "organisms").exc # NoExc
         THEN [exc |-> DictGetItem(cres, "organisms").exc,
               shortdesc |-> Append(shortdesc, NameEntry(DictGetItem(cres, "name").val))]
         ELSE OrganismLoop(DictGetItem(cres, "organisms").val,
                           [exc |-> NoExc,
                            shortdesc |-> Append(shortdesc,
                                                 NameEntry(DictGetItem(cres, "name").val))])
    ELSE [exc |-> NoExc,
          shortdesc |-> Append(shortdesc, NameEntry(DictGetItem(cres, "name").val))]

\* for cres in res: one step per record, until an exception
RECURSIVE ResultLoop(_, _)
ResultLoop(res, sofar) ==
    IF res = <<>> \/ sofar.exc # NoExc THEN sofar
    ELSE ResultLoop(Tail(res), RecordStep(Head(res), sofar.shortdesc))

\* variant: an exception is swallowed and the entries so far are returned
Leave_swallow(self, exc, shortdesc, gets, logged) ==
    Outcome(self, "returned", NoExc, shortdesc, gets, <<>>, logged)

\* an exception leaves the method without a value; the local list is dropped
Leave(self, exc, shortdesc, gets, logged) ==
    IF exc # NoExc THEN Outcome(self, "raised", exc, <<>>, gets, <<>>, logged)
    ELSE Outcome(self, "returned", NoExc, shortdesc, gets, <<>>, logged)

\* the method ends after the loop over the results
LeaveLoop(self, done, gets) == Leave(self, done.exc, done.shortdesc, gets, <<>>)

\* variant: the query URL is built in place in self.uniref_url
get_seq_annotation_strings_inplace(self, feature, net) ==
    LET shortdesc == <<IdentifierEntry(feature)>>
        url == SearchUrl(self, feature)
        gets == <<url>>
        self2 == [self EXCEPT !.uniref_url = url]
    IN IF net.exc # NoExc THEN Leave(self2, net.exc, shortdesc, gets, <<>>)
       ELSE IF net.res.status_code # HTTP_OK
       THEN LET code == GetAttr(net.res, "code")
            IN IF code.exc # NoExc THEN Leave(self2, code.exc, shortdesc, gets, <<>>)
               ELSE Leave(self2, NoExc, Append(shortdesc, FailureEntry(code.val)), gets,
                          <<[level |-> "warning", msg |-> FailureMessage(code.val)]>>)
       ELSE LET res == DictGetItem(net.res.json, "results")
            IN IF res.exc # NoExc THEN Leave(self2, res.exc, shortdesc, gets, <<>>)
               ELSE LeaveLoop(self2, ResultLoop(res.val, [exc |-> NoExc, shortdesc |-> shortdesc]),
                              gets)

get_seq_annotation_strings(self, feature, net) ==
    LET shortdesc == <<IdentifierEntry(feature)>>
        gets == <<SearchUrl(self, feature)>>
    IN IF net.exc # NoExc THEN Leave(self, net.exc, shortdesc, gets, <<>>)
       ELSE IF net.res.status_code # HTTP_OK
       THEN LET code == GetAttr(net.res, "code")
            IN IF code.exc # NoExc THEN Leave(self, code.exc, shortdesc, gets, <<>>)
               ELSE Leave(self, NoExc, Append(shortdesc, FailureEntry(code.val)), gets,
                          <<[level |-> "warning", msg |-> FailureMessage(code.val)]>>)
       ELSE LET res == DictGetItem(net.res.json, "results")
            IN IF res.exc # NoExc THEN Leave(self, res.exc, shortdesc, gets, <<>>)
               ELSE LeaveLoop(self, ResultLoop(res.val, [exc |-> NoExc, shortdesc |-> shortdesc]),
                              gets)

\* variant: the page URL is built on self.uniref_url and opened with new=1
show_annotation_info_rest(self, annotation, launch) ==
    LET url == StrAdd(self.uniref_url, annotation)
    IN IF url.exc # NoExc
       THEN Outcome(self, "raised", url.exc, <<>>, <<>>, <<>>, <<>>)
       ELSE LET opens == <<[url |-> url.val, new |-> 1]>>
            IN IF launch # "ok"
               THEN Outcome(self, "raised", launch, <<>>, <<>>, opens, <<>>)
               ELSE Outcome(self, "returned", NoExc, <<>>, <<>>, opens, <<>>)

show_annotation_info(self, annotation, launch) ==
    LET uniref_base == "https://www.uniprot.org/uniref/"
        url == StrAdd(uniref_base, annotation)
    IN IF url.exc # NoExc
       THEN Outcome(self, "raised", url.exc, <<>>, <<>>, <<>>, <<>>)
       ELSE LET opens == <<[url |-> url.val, new |-> NEW_WINDOW]>>
            IN IF launch # "ok"
               THEN Outcome(self, "raised", launch, <<>>, <<>>, opens, <<>>)
               ELSE Outcome(self, "returned", NoExc, <<>>, <<>>, opens, <<>>)

-----------------------------------------------------------------------------
(* The host: one call at a time *)

NoCall == [op |-> "none"]
NoRet == [status |-> "idle", exc |-> NoExc, value |-> <<>>]
NoPrev == [op |-> "none"]

\* what the host passes to show_annotation_info: a str, or the dict part of an
\* entry of get_seq_annotation_strings
Annotations ==
    {[type |-> "str", str |-> f] : f \in Features}
    \cup {[type |-> "dict", dict |-> IdentifierEntry(f).detail] : f \in Features}
    \cup {[type |-> "dict", dict |-> NameEntry("X").detail]}

Idle == call = NoCall

Apply(c, out) ==
    /\ call' = c
    /\ adapter' = out.self
    /\ ret' = out.ret
    /\ http' = out.http
    /\ browser' = out.browser
    /\ logs' = out.logs
    /\ prev' = prev

Init ==
    /\ \E exp \in Contexts : adapter = __init__(exp).self
    /\ call = NoCall
    /\ ret = NoRet
    /\ http = <<>>
    /\ browser = <<>>
    /\ logs = <<>>
    /\ prev = NoPrev

Construct ==
    /\ Idle
    /\ \E exp \in Contexts : Apply([op |-> "init", exp |-> exp], __init__(exp))

Fetch(feature, net) ==
    Apply([op |-> "get", feature |-> feature, net |-> net],
          get_seq_annotation_strings(adapter, feature, net))

\* the service is unreachable; answers with an error status; answers 200 with
\* results as documented; answers 200 without `results'; answers 200 with a
\* record lacking a field after some good ones, or before a good one
GetWith(maxR, maxO) ==
    /\ Idle
    /\ \E feature \in Features :
          \/ Fetch(feature, Unreachable)
          \/ \E status \in ErrorStatuses : Fetch(feature, Response(status, ErrorBody))
          \/ \E k \in 0..maxR : \E r \in [1..k -> GoodRecords(maxO)] :
                Fetch(feature, Response(HTTP_OK, [results |-> r]))
          \/ Fetch(feature, Response(HTTP_OK, ErrorBody))
          \/ \E k \in 0..(maxR - 1) :
                \E r \in [1..k -> GoodRecords(maxO)], b \in BadRecords(maxO) :
                   Fetch(feature, Response(HTTP_OK, [results |-> Append(r, b)]))
          \/ \E b \in BadRecords(maxO), g \in GoodRecords(1) :
                Fetch(feature, Response(HTTP_OK, [results |-> <<b, g>>]))

Get == GetWith(MaxRecords, MaxOrgs)

FrameGet == GetWith(FrameMaxRecords, FrameMaxOrgs)

Show ==
    /\ Idle
    /\ \E annotation \in Annotations, launch \in Launches :
          Apply([op |-> "show", annotation |-> annotation, launch |-> launch],
                show_annotation_info(adapter, annotation, launch))

\* the host takes the outcome and is ready for its next call
Resume(p) ==
    /\ ~Idle
    /\ call' = NoCall
    /\ ret' = NoRet
    /\ http' = <<>>
    /\ browser' = <<>>
    /\ logs' = <<>>
    /\ prev' = p
    /\ UNCHANGED adapter

HostResume == Resume(prev)

\* ... remembering the last get_seq_annotation_strings call
HostResumeRecord ==
    Resume(IF call.op = "get"
           THEN [op |-> "get", feature |-> call.feature, net |-> call.net,
                 self |-> adapter, ret |-> ret]
           ELSE prev)

Next == Construct \/ Get \/ Show \/ HostResume

Spec == Init /\ [][Next]_vars

FrameNext == Construct \/ FrameGet \/ Show \/ HostResumeRecord

SpecFrame == Init /\ [][FrameNext]_vars

-----------------------------------------------------------------------------
(* Properties *)

Contains(s, t) == \E i \in 1..(Len(s) - Len(t) + 1) : SubSeq(s, i, i + Len(t) - 1) = t

GetDone == call.op = "get"
Answered == GetDone /\ call.net.exc = NoExc
Status == call.net.res.status_code
Body == call.net.res.json

WellFormedRecord(rec) ==
    /\ "name" \in DOMAIN rec
    /\ "organisms" \in DOMAIN rec =>
          \A m \in 1..Len(rec.organisms) : "scientificName" \in DOMAIN rec.organisms[m]

WellFormed(body) ==
    /\ "results" \in DOMAIN body
    /\ \A k \in 1..Len(body.results) : WellFormedRecord(body.results[k])

AnsweredOK == Answered /\ Status = HTTP_OK /\ WellFormed(Body)

NOrgs(rec) == IF "organisms" \in DOMAIN rec THEN Len(rec.organisms) ELSE 0

\* entries due before record k: the identifier, and those of records 1..k-1
RECURSIVE EntriesBefore(_, _)
EntriesBefore(results, k) ==
    IF k <= 1 THEN 1
    ELSE EntriesBefore(results, k - 1) + 1 + NOrgs(results[k - 1])

IsIdentifierEntry(e, f) ==
    /\ e.detail = [unirefid |-> f, annotationtype |-> "other"]
    /\ e.summary = f

PlainDetail == [annotationtype |-> "other"]

\* C1: a non-200 answer makes get_seq_annotation_strings return exactly two
\* entries, the identifier entry and one {annotationtype: 'other'} entry whose
\* summary contains the status code
C1_FailureLine ==
    (Answered /\ Status # HTTP_OK) =>
        /\ ret.status = "returned"
        /\ Len(ret.value) = 2
        /\ IsIdentifierEntry(ret.value[1], call.feature)
        /\ ret.value[2].detail = PlainDetail
        /\ Contains(ret.value[2].summary, FormatD(Status))

\* C2: on HTTP 200 with well-formed results and on any non-200 status the call
\* returns a non-empty sequence whose first entry is the identifier entry
C2_IdentifierFirst ==
    (Answered /\ (Status # HTTP_OK \/ WellFormed(Body))) =>
        /\ ret.status = "returned"
        /\ Len(ret.value) >= 1
        /\ IsIdentifierEntry(ret.value[1], call.feature)

ValueFor(results) ==
    get_seq_annotation_strings(
        adapter, call.feature,
        [exc |-> NoExc, res |-> [status_code |-> HTTP_OK, json |-> [results |-> results]]]
    ).ret.value

\* C4: a record with a name and no `organisms' key yields its name entry only,
\* without an error, between the entries of the records before it and the
\* entries of the records after it, which are what they are without it
C4_NoOrganismsKey ==
    AnsweredOK =>
        \A k \in 1..Len(Body.results) :
            "organisms" \notin DOMAIN Body.results[k] =>
                LET results == Body.results
                    before == SubSeq(results, 1, k - 1)
                    after == SubSeq(results, k + 1, Len(results))
                    own == [shape |-> "list", detail |-> PlainDetail,
                            summary |-> "name: " \o results[k].name]
                IN /\ ret.status = "returned"
                   /\ ret.value = ValueFor(before) \o <<own>> \o Tail(ValueFor(after))

C4_Witness ==
    /\ AnsweredOK
    /\ ret.status = "returned"
    /\ Len(Body.results) = 3
    /\ NOrgs(Body.results[1]) = 2
    /\ "organisms" \notin DOMAIN Body.results[2]
    /\ NOrgs(Body.results[3]) = 1
    /\ Len(ret.value) = 7

\* C5: a transport failure, or an HTTP 200 body lacking `results', a record's
\* `name' or an organism's `scientificName', ends the call in that error: no
\* sequence is returned, no failure entry is made
C5_ErrorsPropagate ==
    /\ (GetDone /\ call.net.exc # NoExc) =>
          /\ ret.status = "raised"
          /\ ret.exc = call.net.exc
          /\ ret.value = <<>>
    /\ (Answered /\ Status = HTTP_OK /\ ~WellFormed(Body)) =>
          /\ ret.status = "raised"
          /\ ret.exc = "KeyError"
          /\ ret.value = <<>>

C5_Witness ==
    /\ Answered
    /\ Status = HTTP_OK
    /\ "results" \in DOMAIN Body
    /\ Len(Body.results) = 2
    /\ WellFormedRecord(Body.results[1])
    /\ NOrgs(Body.results[1]) = 1
    /\ "name" \in DOMAIN Body.results[2]
    /\ ~WellFormedRecord(Body.results[2])
    /\ ret.status = "raised"

\* C6: every call of get_seq_annotation_strings, however it ends, issues
\* exactly one GET, of the fixed search URL followed by the feature unchanged
C6_OneGet ==
    GetDone => http = <<"https://rest.uniprot.org/uniref/search?query=" \o call.feature>>

C6_Witness ==
    /\ Answered
    /\ Status = 500
    /\ call.feature = "B C"
    /\ ret.status = "raised"
    /\ Len(http) = 1

\* C7: for a str, when the browser launches, show_annotation_info returns and
\* has opened once, with new=2, the uniref page URL followed by the str unchanged
C7_OpensPage ==
    (call.op = "show" /\ call.annotation.type = "str" /\ call.launch = "ok") =>
        /\ ret.status = "returned"
        /\ browser = <<[url |-> "https://www.uniprot.org/uniref/" \o call.annotation.str,
                         new |-> 2]>>

C7_Witness ==
    /\ call.op = "show"
    /\ call.annotation = [type |-> "str", str |-> "B C"]
    /\ call.launch = "ok"
    /\ ret.status = "returned"

\* str(annotation)
PyStr(annotation) ==
    IF annotation.type = "str" THEN annotation.str
    ELSE IF "unirefid" \in DOMAIN annotation.dict
    THEN "{'unirefid': '" \o annotation.dict.unirefid \o "', 'annotationtype': '"
         \o annotation.dict.annotationtype \o "'}"
    ELSE "{'annotationtype': '" \o annotation.dict.annotationtype \o "'}"

\* C8: for any annotation value, the detail dict of an entry included,
\* show_annotation_info opens the uniref page URL followed by the stringified
\* value, and fails only when the browser launch fails
C8_AnyAnnotation ==
    call.op = "show" =>
        /\ Len(browser) = 1
        /\ browser[1].url = "https://www.uniprot.org/uniref/" \o PyStr(call.annotation)
        /\ ret.status = "raised" => call.launch # "ok"

\* C9: construction returns, with or without a context, and the adapter
\* declares the one capability 'get'
C9_OnlyGet ==
    /\ call.op = "init" => (ret.status = "returned" /\ adapter.exp = call.exp)
    /\ Len(adapter.methods) = 1
    /\ adapter.methods[1] = "get"
    /\ \A i \in 1..Len(adapter.methods) : adapter.methods[i] \notin {"annotate", "enrichment"}

C9_Witness ==
    /\ call.op = "init"
    /\ call.exp = "exp"
    /\ ret.status = "returned"
    /\ adapter.exp = "exp"

\* C10: get_seq_annotation_strings and show_annotation_info leave the adapter's
\* attributes as they are, whether they return or raise; a call's outcome is
\* that of the earlier call with the same feature and the same response, and
\* has nothing of an earlier call for another feature
C10_Independent ==
    /\ [][call'.op \in {"get", "show", "none"} => adapter' = adapter]_vars
    /\ [](adapter.uniref_url = "https://rest.uniprot.org/uniref/")
    /\ []((prev.op = "get" /\ GetDone) =>
            /\ (prev.feature = call.feature /\ prev.net = call.net) => prev.ret = ret
            /\ prev.feature # call.feature =>
                  \A i \in 1..Len(ret.value) :
                      /\ ~IsIdentifierEntry(ret.value[i], prev.feature)
                      /\ "unirefid" \in DOMAIN ret.value[i].detail =>
                            ret.value[i].detail.unirefid = call.feature)

C10_Witness ==
    /\ prev.op = "get"
    /\ GetDone
    /\ prev.feature = call.feature
    /\ prev.net = call.net
    /\ prev.self.exp # adapter.exp
    /\ prev.ret.status = "returned"
    /\ Len(prev.ret.value) = 3
    /\ ret = prev.ret

====
